---- MODULE Spec2Model ----
(***************************************************************************)
(* A model of src/main.py, the "AI SEO Specialist" Streamlit script:       *)
(*   - calculate_seo_score and analyze_meta_description (pure functions),  *)
(*   - fetch_keyword_trends behind st.cache_data(ttl=3600), with its mock  *)
(*     fallback create_mock_keyword_data,                                  *)
(*   - configure_openai behind st.cache_resource, get_api_key_input, the   *)
(*     module-level client, generate_meta_description and the two button   *)
(*     handlers of the script body.                                        *)
(* Strings are sequences of one-character strings.  One run of the script  *)
(* (a Streamlit rerun, triggered by a user action) is one action.          *)
(*                                                                         *)
(* Line 166 of the source opens the prompt with three double quotes and    *)
(* line 174 closes it with three single quotes; the model reads line 174   *)
(* as the end of the prompt, which is what the indentation and the call    *)
(* that follows show was meant.                                            *)
(***************************************************************************)
EXTENDS Integers, Sequences, FiniteSets, TLC

VARIABLES
    scorePc, scoreArgs, scoreResult,      \* calculate_seo_score: call and return value
    anaPc, anaArgs, anaResult,            \* analyze_meta_description: call and return value
    provider, dataCache, trends,          \* trends provider, st.cache_data store, last fetch
    secrets, environ, keyBox,             \* credential sources
    resourceCache, client, generation     \* st.cache_resource store, module client, last generate

scoreVars   == <<scorePc, scoreArgs, scoreResult>>
anaVars     == <<anaPc, anaArgs, anaResult>>
trendsVars  == <<provider, dataCache, trends>>
sessionVars == <<secrets, environ, keyBox, resourceCache, client, generation>>
vars        == <<scoreVars, anaVars, trendsVars, sessionVars>>

Min(a, b) == IF a <= b THEN a ELSE b
Max(a, b) == IF a >= b THEN a ELSE b

\* Python's None where a record (a client, a result, a cache entry) may stand.
None == [none |-> TRUE]
\* Python's None where a string may stand.
NoString == "<None>"

(***************************************************************************)
(* Bounds of the model.                                                    *)
(***************************************************************************)
MaxLength == 210      \* lengths handed to calculate_seo_score: 0..MaxLength
MaxHead   == 3        \* longest enumerated beginning of a description
MaxRows   == 2        \* most rows in an enumerated provider table

(***************************************************************************)
(* calculate_seo_score (src/main.py 242-264).                              *)
(***************************************************************************)
calculate_seo_score_offbyone(length, contains_topic, has_action_word) ==
    LET s1 == IF 120 <= length /\ length < 160 THEN 40
              ELSE IF (100 <= length /\ length < 120) \/ (160 < length /\ length <= 180) THEN 30
              ELSE IF (80 <= length /\ length < 100) \/ (180 < length /\ length <= 200) THEN 20
              ELSE 10
        s2 == IF contains_topic THEN s1 + 30 ELSE s1
        s3 == IF has_action_word THEN s2 + 30 ELSE s2
    IN  Min(s3, 100)

calculate_seo_score(length, contains_topic, has_action_word) ==
    LET s1 == IF 120 <= length /\ length <= 160 THEN 40
              ELSE IF (100 <= length /\ length < 120) \/ (160 < length /\ length <= 180) THEN 30
              ELSE IF (80 <= length /\ length < 100) \/ (180 < length /\ length <= 200) THEN 20
              ELSE 10
        s2 == IF contains_topic THEN s1 + 30 ELSE s1
        s3 == IF has_action_word THEN s2 + 30 ELSE s2
    IN  Min(s3, 100)

ScoreInit ==
    /\ scorePc = "idle"
    /\ scoreArgs = None
    /\ scoreResult = None

\* One call calculate_seo_score(length, contains_topic, has_action_word).
CallScore ==
    /\ scorePc = "idle"
    /\ \E length \in 0..MaxLength, ct \in BOOLEAN, ha \in BOOLEAN :
          /\ scoreArgs' = [length |-> length, contains_topic |-> ct, has_action_word |-> ha]
          /\ scoreResult' = calculate_seo_score(length, ct, ha)
    /\ scorePc' = "returned"
    /\ UNCHANGED <<anaVars, trendsVars, sessionVars>>

(***************************************************************************)
(* Strings.  A topic is a sequence of characters.  A description is        *)
(* head \o pad copies of PadChar \o tail, kept as the record               *)
(* [head, pad, tail] so that descriptions of 120 to 200 characters can be  *)
(* enumerated; every operator below computes what Python computes on the   *)
(* expanded string.                                                        *)
(***************************************************************************)
PadChar == "x"
Whitespace == {" "}
HeadAlphabet == {"G", "e", "t", " "}
Heads == UNION {[1..n -> HeadAlphabet] : n \in 0..MaxHead}
Tails == {<<>>, <<"!">>, <<"?">>}
PadLens == {0, 76, 96, 116, 120, 157, 177, 197}
Descriptions == {[head |-> h, pad |-> p, tail |-> t] : h \in Heads, p \in PadLens, t \in Tails}
Topics == {<<>>, <<"g", "e", "t">>, <<"T", " ", "e">>, <<"s", "e", "o">>, <<"x">>}

\* str.lower() on the letters the model uses.
UpperToLower == [c \in {"G", "E", "T", "S", "O", "X"} |->
                    CASE c = "G" -> "g" [] c = "E" -> "e" [] c = "T" -> "t"
                      [] c = "S" -> "s" [] c = "O" -> "o" [] c = "X" -> "x"]
LowerChar(c) == IF c \in DOMAIN UpperToLower THEN UpperToLower[c] ELSE c
LowerSeq(s) == [i \in 1..Len(s) |-> LowerChar(s[i])]

\* len(description)
Length(d) == Len(d.head) + d.pad + Len(d.tail)
\* description[i-1]
CharAt(d, i) ==
    IF i <= Len(d.head) THEN d.head[i]
    ELSE IF i <= Len(d.head) + d.pad THEN PadChar
    ELSE d.tail[i - Len(d.head) - d.pad]
\* description.lower()
LowerDesc(d) == [head |-> LowerSeq(d.head), pad |-> d.pad, tail |-> LowerSeq(d.tail)]

\* The offsets at which a window of n characters has to be looked at: a window
\* that lies inside the pad reads the same as the first such window, at offset
\* Len(head); every other window starts in the head or ends in the tail.
Offsets(d, n) ==
    {o \in (0..Len(d.head)) \cup ((Len(d.head) + d.pad - n + 1)..(Length(d) - n)) :
        0 <= o /\ o <= Length(d) - n}
\* word in description
Contains(w, d) ==
    \E o \in Offsets(d, Len(w)) : \A j \in 1..Len(w) : CharAt(d, o + j) = w[j]
\* any(char in description for char in chars)
HasAnyChar(chars, d) ==
    \/ \E i \in 1..Len(d.head) : d.head[i] \in chars
    \/ d.pad > 0 /\ PadChar \in chars
    \/ \E i \in 1..Len(d.tail) : d.tail[i] \in chars

\* len(description.split()): the positions where a whitespace-delimited token
\* starts; inside the pad only its first character can start one.
TokenStarts(d) ==
    {i \in (1..Min(Length(d), Len(d.head) + 1)) \cup ((Len(d.head) + d.pad + 1)..Length(d)) :
        /\ CharAt(d, i) \notin Whitespace
        /\ (i = 1 \/ CharAt(d, i - 1) \in Whitespace)}
WordCount(d) == Cardinality(TokenStarts(d))

\* topic.split(): the maximal runs of non-whitespace characters, in order.
RECURSIVE SplitFrom(_, _, _)
SplitFrom(s, i, cur) ==
    IF i > Len(s) THEN (IF cur = <<>> THEN <<>> ELSE <<cur>>)
    ELSE IF s[i] \in Whitespace
         THEN (IF cur = <<>> THEN <<>> ELSE <<cur>>) \o SplitFrom(s, i + 1, <<>>)
         ELSE SplitFrom(s, i + 1, Append(cur, s[i]))
Split(s) == SplitFrom(s, 1, <<>>)

action_words ==
    << <<"d","i","s","c","o","v","e","r">>, <<"l","e","a","r","n">>, <<"g","e","t">>,
       <<"f","i","n","d">>, <<"e","x","p","l","o","r","e">>, <<"b","o","o","s","t">>,
       <<"i","m","p","r","o","v","e">>, <<"m","a","s","t","e","r">> >>

SHORTEN == "Consider shortening to under 160 characters"
LENGTHEN == "Consider adding more descriptive content"
ADD_TOPIC == "Include main topic keywords"
ADD_ACTION == "Add action words to encourage clicks"
ADD_PUNCT == "Consider adding punctuation for emphasis"

(***************************************************************************)
(* analyze_meta_description (src/main.py 207-240).                         *)
(***************************************************************************)
Opt(cond, text) == IF cond THEN <<text>> ELSE <<>>

\* The suggestions with the action-word check left out.
suggestions_noaction(length, contains_topic, has_action_word, has_punct) ==
       Opt(length > 160, SHORTEN)
    \o Opt(length < 120, LENGTHEN)
    \o Opt(~contains_topic, ADD_TOPIC)
    \o Opt(~has_punct, ADD_PUNCT)

\* The suggestions with the second length test written against 160.
suggestions_bothlengths(length, contains_topic, has_action_word, has_punct) ==
       Opt(length > 160, SHORTEN)
    \o Opt(length < 170, LENGTHEN)
    \o Opt(~contains_topic, ADD_TOPIC)
    \o Opt(~has_action_word, ADD_ACTION)
    \o Opt(~has_punct, ADD_PUNCT)

\* lines 221-231
suggestions(length, contains_topic, has_action_word, has_punct) ==
       Opt(length > 160, SHORTEN)
    \o Opt(length < 120, LENGTHEN)
    \o Opt(~contains_topic, ADD_TOPIC)
    \o Opt(~has_action_word, ADD_ACTION)
    \o Opt(~has_punct, ADD_PUNCT)

analyze_meta_description(description, topic) ==
    LET length == Length(description)
        word_count == WordCount(description)
        topic_words == Split(LowerSeq(topic))
        contains_topic ==
            \E k \in 1..Len(topic_words) : Contains(topic_words[k], LowerDesc(description))
        has_action_word ==
            \E k \in 1..Len(action_words) : Contains(action_words[k], LowerDesc(description))
        has_punct == HasAnyChar({"!", "?"}, description)
    IN  [length |-> length,
         word_count |-> word_count,
         contains_topic |-> contains_topic,
         has_action_word |-> has_action_word,
         suggestions |-> suggestions(length, contains_topic, has_action_word, has_punct),
         score |-> calculate_seo_score(length, contains_topic, has_action_word)]

AnaInit ==
    /\ anaPc = "idle"
    /\ anaArgs = None
    /\ anaResult = None

\* One call analyze_meta_description(description, topic).
CallAnalyze ==
    /\ anaPc = "idle"
    /\ \E description \in Descriptions, topic \in Topics :
          /\ anaArgs' = [description |-> description, topic |-> topic]
          /\ anaResult' = analyze_meta_description(description, topic)
    /\ anaPc' = "returned"
    /\ UNCHANGED <<scoreVars, trendsVars, sessionVars>>

(***************************************************************************)
(* The trends provider (pytrends, outside the repository).  provider is    *)
(* what the next TrendReq(...) / build_payload / related_queries() would   *)
(* do: raise, or hand back a value of one of the shapes the code probes.   *)
(* A table is the "top" DataFrame: a sequence of rows [query, value].      *)
(***************************************************************************)
Keywords == {"seo"}                       \* what the user types (non-blank)
PopValues == {0, 1, 8, 100}               \* popularity scores, 0..100
RelatedQueries == {"seo news"}
TableRows == [query : RelatedQueries, value : PopValues]
Tables == UNION {[1..n -> TableRows] : n \in 0..MaxRows}

\* The provider table that carries exactly the rows of the mock dataset.
MockLikeTable(keyword) ==
    << [query |-> keyword \o " tips", value |-> 100],
       [query |-> keyword \o " guide", value |-> 85],
       [query |-> keyword \o " strategies", value |-> 70],
       [query |-> keyword \o " best practices", value |-> 60],
       [query |-> keyword \o " tools", value |-> 45] >>

Responses ==
    {[kind |-> "raise"],                  \* network / rate limit / parse failure
     [kind |-> "absent"],                 \* related_queries() is None
     [kind |-> "nokey"],                  \* a dict without the keyword
     [kind |-> "notop"]}                  \* related_queries[keyword]['top'] is None
    \cup {[kind |-> "table", rows |-> t] : t \in Tables \cup {MockLikeTable(k) : k \in Keywords}}

\* round(): numpy rounds num/den (den > 0) to the nearest integer, a tie to the even one.
RoundHalfEven(num, den) ==
    LET q == num \div den
        r == num % den
    IN  IF 2 * r < den THEN q
        ELSE IF 2 * r > den THEN q + 1
        ELSE IF q % 2 = 0 THEN q ELSE q + 1

RECURSIVE MaxValue(_)
MaxValue(rows) ==
    IF Len(rows) = 1 THEN rows[1].value
    ELSE Max(rows[1].value, MaxValue(Tail(rows)))

\* The mock dataset with its difficulty column derived like the provider's.
create_mock_keyword_data_derived(keyword) ==
    << [query |-> keyword \o " tips", value |-> 100, estimated_volume |-> 10000, difficulty |-> 100],
       [query |-> keyword \o " guide", value |-> 85, estimated_volume |-> 8500, difficulty |-> 85],
       [query |-> keyword \o " strategies", value |-> 70, estimated_volume |-> 7000, difficulty |-> 70],
       [query |-> keyword \o " best practices", value |-> 60, estimated_volume |-> 6000, difficulty |-> 60],
       [query |-> keyword \o " tools", value |-> 45, estimated_volume |-> 4500, difficulty |-> 45] >>

\* create_mock_keyword_data (src/main.py 142-156)
create_mock_keyword_data(keyword) ==
    << [query |-> keyword \o " tips", value |-> 100, estimated_volume |-> 10000, difficulty |-> 65],
       [query |-> keyword \o " guide", value |-> 85, estimated_volume |-> 8500, difficulty |-> 58],
       [query |-> keyword \o " strategies", value |-> 70, estimated_volume |-> 7000, difficulty |-> 72],
       [query |-> keyword \o " best practices", value |-> 60, estimated_volume |-> 6000, difficulty |-> 55],
       [query |-> keyword \o " tools", value |-> 45, estimated_volume |-> 4500, difficulty |-> 48] >>

\* lines 131-132: the two derived columns
AddMetrics(rows) ==
    [i \in 1..Len(rows) |->
        [query |-> rows[i].query,
         value |-> rows[i].value,
         estimated_volume |-> rows[i].value * 100,
         difficulty |-> RoundHalfEven(rows[i].value * 100, MaxValue(rows))]]

\* The body of fetch_keyword_trends (lines 108-140) on the provider's response:
\* [returned: the DataFrame handed back, excepted: the except clause ran].
\* Raised inside the try, and so caught by "except Exception": the provider's
\* own error; "keyword in None" (TypeError); and astype(int) on the NaN that
\* 0/0 gives when every value is 0 (ValueError).
fetch_body(keyword, response) ==
    IF response.kind = "raise" \/ response.kind = "absent"
    THEN [returned |-> create_mock_keyword_data(keyword), excepted |-> TRUE]
    ELSE IF response.kind = "table" /\ response.rows # <<>>
    THEN IF MaxValue(response.rows) = 0
         THEN [returned |-> create_mock_keyword_data(keyword), excepted |-> TRUE]
         ELSE [returned |-> AddMetrics(response.rows), excepted |-> FALSE]
    ELSE [returned |-> <<>>, excepted |-> FALSE]

(***************************************************************************)
(* @st.cache_data(ttl=3600) (line 105): a store from the argument to the   *)
(* value the function returned, each entry with its age in seconds.  An    *)
(* entry is served while it is younger than the TTL.  fromExcept is        *)
(* bookkeeping the program does not keep: whether the stored value was     *)
(* built by the except clause.                                             *)
(***************************************************************************)
TTL == 3600
Ticks == {1800}                           \* seconds that pass between user actions

cache_live(entry) == entry # None /\ entry.age < TTL

\* A store that keeps only what the try block returned.
cache_store_noexcept(entry, result) ==
    IF result.excepted THEN entry
    ELSE [value |-> result.returned, age |-> 0, fromExcept |-> result.excepted]

cache_store(entry, result) ==
    [value |-> result.returned, age |-> 0, fromExcept |-> result.excepted]

\* What the response is, as the code sees it.
Shape(response) ==
    IF response.kind # "table" THEN response.kind
    ELSE IF response.rows = <<>> THEN "empty" ELSE "rows"

TrendsIdle ==
    /\ provider = [kind |-> "raise"]
    /\ dataCache = [k \in Keywords |-> None]
    /\ trends = [kind |-> "none"]

TrendsInit ==
    /\ provider \in Responses
    /\ dataCache = [k \in Keywords |-> None]
    /\ trends = [kind |-> "none"]

\* The provider's state changes (it fails, recovers, has other data).
ProviderChange ==
    /\ provider' \in Responses \ {provider}
    /\ UNCHANGED <<dataCache, trends>>
    /\ UNCHANGED <<scoreVars, anaVars, sessionVars>>

\* Time passes.
Tick ==
    /\ \E k \in Keywords : cache_live(dataCache[k])
    /\ \E step \in Ticks :
          dataCache' = [k \in Keywords |->
                          IF dataCache[k] = None THEN None
                          ELSE [dataCache[k] EXCEPT !.age = Min(@ + step, TTL)]]
    /\ UNCHANGED <<provider, trends>>
    /\ UNCHANGED <<scoreVars, anaVars, sessionVars>>

\* "Fetch Trends" pressed with a blank keyword (lines 304-306).
FetchBlank ==
    /\ trends' = [kind |-> "warning"]
    /\ UNCHANGED <<provider, dataCache>>
    /\ UNCHANGED <<scoreVars, anaVars, sessionVars>>

\* "Fetch Trends" pressed with a keyword (lines 304-350): the cached call of
\* line 308 and the branch of line 310.
FetchTrends ==
    \E keyword \in Keywords :
      LET entry == dataCache[keyword]
          hit == cache_live(entry)
          result == fetch_body(keyword, provider)
          stored == IF hit THEN entry ELSE cache_store(entry, result)
          returned == IF hit THEN entry.value ELSE result.returned
      IN  /\ dataCache' = [dataCache EXCEPT ![keyword] = stored]
          /\ trends' = [kind |-> "fetched",
                        keyword |-> keyword,
                        returned |-> returned,
                        hadEntry |-> entry # None,
                        seenAge |-> IF entry = None THEN 0 ELSE entry.age,
                        contacted |-> ~hit,
                        shape |-> IF hit THEN "cached" ELSE Shape(provider),
                        excepted |-> IF hit THEN FALSE ELSE result.excepted,
                        fromExcept |-> IF hit THEN entry.fromExcept ELSE result.excepted,
                        shown |-> IF returned # <<>> THEN "table" ELSE "info"]
          /\ UNCHANGED provider
          /\ UNCHANGED <<scoreVars, anaVars, sessionVars>>

TrendsNext == ProviderChange \/ Tick \/ FetchBlank \/ FetchTrends

(***************************************************************************)
(* Credentials and the OpenAI client (lines 12-42 and 97-100).             *)
(*   secrets : what "OPENAI_API_KEY" in st.secrets finds: a key, no such   *)
(*             key (NoString), or no secrets file at all, in which case    *)
(*             Streamlit raises on the lookup (Unreadable);                *)
(*   environ : os.getenv("OPENAI_API_KEY"): None (NoString), "" or a key;  *)
(*   keyBox  : the sidebar text_input, "" until the user types.            *)
(* OpenAI(api_key=k) is the record [api_key |-> k].                        *)
(***************************************************************************)
Unreadable == "unreadable"
\* The st.cache_resource store before configure_openai has run.
Unset == [unset |-> TRUE]
SecretStates == {Unreadable, NoString, "sk-S1", "sk-S2"}
EnvStates == {NoString, "", "sk-E"}
BoxStates == {"", "sk-U1", "sk-U2"}
OpenAI(key) == [api_key |-> key]

\* configure_openai (lines 13-29), its body run on the sources as they are.
configure_openai(s, e) ==
    IF s = Unreadable THEN None           \* the lookup raises: lines 27-29
    ELSE IF s # NoString THEN OpenAI(s)   \* lines 17-18
    ELSE IF e # NoString /\ e # "" THEN OpenAI(e)   \* lines 21-23
    ELSE None                             \* line 26

\* configure_openai without the cache: the body runs on every call.
cached_configure_rerun(cache, s, e) == [value |-> configure_openai(s, e)]

\* @st.cache_resource (line 12): the body runs on the first call only, and what
\* it returned (a client or None) is what every later call returns.
cached_configure(cache, s, e) ==
    IF cache = Unset THEN [value |-> configure_openai(s, e)] ELSE cache

\* get_api_key_input (lines 31-42)
get_api_key_input(box) == IF box # "" THEN OpenAI(box) ELSE None

\* lines 98-100, given the cache as it is after line 98
module_client(cache, box) ==
    IF cache.value # None THEN cache.value ELSE get_api_key_input(box)

(***************************************************************************)
(* generate_meta_description (lines 158-205).  llm is what the             *)
(* text-generation provider does with the request: raise, answer without   *)
(* a usable choice ("malformed"), or answer with a text.  The tone and the *)
(* target length only shape the prompt.                                    *)
(***************************************************************************)
RECURSIVE StripLeft(_)
StripLeft(s) == IF s # <<>> /\ Head(s) \in Whitespace THEN StripLeft(Tail(s)) ELSE s
RECURSIVE StripRight(_)
StripRight(s) ==
    IF s # <<>> /\ s[Len(s)] \in Whitespace THEN StripRight(SubSeq(s, 1, Len(s) - 1)) ELSE s
\* str.strip()
Strip(d) ==
    IF d.pad > 0
    THEN [head |-> StripLeft(d.head), pad |-> d.pad, tail |-> StripRight(d.tail)]
    ELSE [head |-> StripLeft(StripRight(d.head \o d.tail)), pad |-> 0, tail |-> <<>>]

LlmTexts ==
    {[head |-> <<" ", "G", "e", "t">>, pad |-> 120, tail |-> <<"!">>],
     [head |-> <<" ">>, pad |-> 0, tail |-> <<" ">>],
     [head |-> <<"t", "e">>, pad |-> 197, tail |-> <<"?">>]}
LlmOutcomes == {[kind |-> "raise"], [kind |-> "malformed"]}
                  \cup {[kind |-> "text", text |-> t] : t \in LlmTexts}
GenTopics == {<<>>, <<"g", "e", "t">>}

\* generate_meta_description without the guard of lines 160-162.
generate_meta_description_noguard(cl, topic, llm) ==
    IF llm.kind # "text"
    THEN [result |-> None, error |-> "Generation failed", called |-> TRUE]
    ELSE LET description == Strip(llm.text)
         IN  [result |-> [content |-> description,
                          analysis |-> analyze_meta_description(description, topic)],
              error |-> "", called |-> TRUE]

\* [result: the return value, error: what st.error showed, called: the request
\* to the provider was issued]
generate_meta_description(cl, topic, llm) ==
    IF cl = None
    THEN [result |-> None, error |-> "OpenAI client not configured", called |-> FALSE]
    ELSE IF llm.kind # "text"
    THEN [result |-> None, error |-> "Generation failed", called |-> TRUE]
    ELSE LET description == Strip(llm.text)
         IN  [result |-> [content |-> description,
                          analysis |-> analyze_meta_description(description, topic)],
              error |-> "", called |-> TRUE]

NoGeneration == [kind |-> "none"]

SessionIdle ==
    /\ secrets = NoString /\ environ = NoString /\ keyBox = ""
    /\ resourceCache = Unset /\ client = None
    /\ generation = NoGeneration

\* Before the first run of the script.
SessionInit ==
    /\ secrets \in SecretStates
    /\ environ \in EnvStates
    /\ keyBox = ""
    /\ resourceCache = Unset
    /\ client = None
    /\ generation = NoGeneration

\* The secrets file is edited while the app runs.
SecretsChange ==
    /\ secrets' \in SecretStates \ {secrets}
    /\ UNCHANGED <<environ, keyBox, resourceCache, client, generation>>
    /\ UNCHANGED <<scoreVars, anaVars, trendsVars>>

\* Lines 98-100, executed at every run of the script, with the key box at box.
ResolveClient(box) ==
    /\ resourceCache' = cached_configure(resourceCache, secrets, environ)
    /\ client' = module_client(resourceCache', box)
    /\ keyBox' = box
    /\ UNCHANGED <<secrets, environ>>

\* The key box is on the page: the last run got no client from configure_openai.
BoxRendered == resourceCache # Unset /\ resourceCache.value = None

\* A run of the script with no button pressed: the page is loaded, or the
\* user picks another tool.
Rerun ==
    /\ ResolveClient(keyBox)
    /\ generation' = NoGeneration
    /\ UNCHANGED <<scoreVars, anaVars, trendsVars>>

\* The user types a key into the sidebar box; the script runs again.
TypeKey ==
    /\ BoxRendered
    /\ \E box \in BoxStates \ {keyBox} : ResolveClient(box)
    /\ generation' = NoGeneration
    /\ UNCHANGED <<scoreVars, anaVars, trendsVars>>

\* "Generate Meta Description" pressed (lines 376-382).
PressGenerate ==
    /\ resourceCache # Unset
    /\ ResolveClient(keyBox)
    /\ \E topic \in GenTopics, llm \in LlmOutcomes :
          generation' =
             IF topic = <<>>
             THEN [kind |-> "warning", client |-> client', called |-> FALSE,
                   outcome |-> "", result |-> None, error |-> ""]
             ELSE IF client' = None
             THEN [kind |-> "button", client |-> client', called |-> FALSE,
                   outcome |-> "", result |-> None,
                   error |-> "Please configure OpenAI API key"]
             ELSE LET g == generate_meta_description(client', topic, llm)
                  IN  [kind |-> "button", client |-> client', called |-> g.called,
                       outcome |-> IF g.called THEN llm.kind ELSE "",
                       result |-> g.result, error |-> g.error]
    /\ UNCHANGED <<scoreVars, anaVars, trendsVars>>

\* generate_meta_description called as a function, whatever the client is.
CallGenerate ==
    /\ resourceCache # Unset
    /\ \E topic \in GenTopics, llm \in LlmOutcomes :
          LET g == generate_meta_description(client, topic, llm)
          IN  generation' = [kind |-> "call", client |-> client, called |-> g.called,
                             outcome |-> IF g.called THEN llm.kind ELSE "",
                             result |-> g.result, error |-> g.error]
    /\ UNCHANGED <<secrets, environ, keyBox, resourceCache, client>>
    /\ UNCHANGED <<scoreVars, anaVars, trendsVars>>

CredentialNext == Rerun \/ TypeKey \/ PressGenerate
SessionNext == SecretsChange \/ Rerun \/ TypeKey \/ PressGenerate \/ CallGenerate

(***************************************************************************)
(* The specifications: one for each part of the program, and Spec for all  *)
(* of it.                                                                  *)
(***************************************************************************)
ScoreNext == CallScore
ScoreSpecInit == ScoreInit /\ AnaInit /\ TrendsIdle /\ SessionIdle
ScoreSpec == ScoreSpecInit /\ [][ScoreNext]_vars

AnalyzeNext == CallAnalyze
AnalyzeSpecInit == ScoreInit /\ AnaInit /\ TrendsIdle /\ SessionIdle
AnalyzeSpec == AnalyzeSpecInit /\ [][AnalyzeNext]_vars

TrendsSpecInit == ScoreInit /\ AnaInit /\ TrendsInit /\ SessionIdle
TrendsSpec == TrendsSpecInit /\ [][TrendsNext]_vars

CredentialSpecInit == ScoreInit /\ AnaInit /\ TrendsIdle /\ SessionInit
CredentialSpec == CredentialSpecInit /\ [][CredentialNext]_vars

SessionSpecInit == ScoreInit /\ AnaInit /\ TrendsIdle /\ SessionInit
SessionSpec == SessionSpecInit /\ [][SessionNext]_vars

Init == ScoreInit /\ AnaInit /\ TrendsInit /\ SessionInit
Next == CallScore \/ CallAnalyze \/ TrendsNext \/ SessionNext
Spec == Init /\ [][Next]_vars

(***************************************************************************)
(* The claims.                                                             *)
(***************************************************************************)
Range(f) == {f[i] : i \in DOMAIN f}
Bit(b) == IF b THEN 1 ELSE 0

\* The length band of the score, as the specification tabulates it.
LengthPoints(L) ==
    CASE L \in 120..160 -> 40
      [] L \in (100..119) \cup (161..180) -> 30
      [] L \in (80..99) \cup (181..200) -> 20
      [] OTHER -> 10

\* C1: for every length L >= 0 and every pair of booleans, calculate_seo_score
\* returns min(100, T + 30*[containsTopic] + 30*[hasActionWord]) with T the
\* length band of L, and so a score within 0..100.
C1_ScoreFormula ==
    scorePc = "returned" =>
        /\ scoreResult = Min(100, LengthPoints(scoreArgs.length)
                                    + 30 * Bit(scoreArgs.contains_topic)
                                    + 30 * Bit(scoreArgs.has_action_word))
        /\ scoreResult \in 0..100

\* A call at the upper edge of the best band, with both bonuses: the score is 100.
C1_Witness ==
    /\ scorePc = "returned"
    /\ scoreArgs.length = 160
    /\ scoreArgs.contains_topic /\ scoreArgs.has_action_word
    /\ scoreResult = 100

\* C4: whenever analyze_meta_description returns no suggestions, every check
\* passes for that content: its length is within 120..160, it contains a topic
\* word and an action word, and it contains '!' or '?'.
C4_EmptyOnlyIfAllPass ==
    (anaPc = "returned" /\ anaResult.suggestions = <<>>) =>
        /\ 120 <= Length(anaArgs.description) /\ Length(anaArgs.description) <= 160
        /\ anaResult.length = Length(anaArgs.description)
        /\ anaResult.contains_topic
        /\ anaResult.has_action_word
        /\ HasAnyChar({"!", "?"}, anaArgs.description)

\* A description for which no suggestion is made.
C4_Witness ==
    /\ anaPc = "returned"
    /\ anaResult.suggestions = <<>>
    /\ anaResult.score = 100

\* C5: at most one of the two length suggestions appears in a report, and for
\* the empty content the report is length 0, word count 0, no topic word, no
\* action word, score 10, and the four suggestions "add more content", "include
\* topic keywords", "add action words", "add punctuation", in this order.
C5_LengthSuggestionsAndEmpty ==
    anaPc = "returned" =>
        /\ ~(SHORTEN \in Range(anaResult.suggestions) /\ LENGTHEN \in Range(anaResult.suggestions))
        /\ Length(anaArgs.description) = 0 =>
              anaResult = [length |-> 0, word_count |-> 0,
                           contains_topic |-> FALSE, has_action_word |-> FALSE,
                           suggestions |-> <<LENGTHEN, ADD_TOPIC, ADD_ACTION, ADD_PUNCT>>,
                           score |-> 10]

\* The empty content analysed against a topic that has words.
C5_Witness ==
    /\ anaPc = "returned"
    /\ Length(anaArgs.description) = 0
    /\ anaArgs.topic # <<>>
    /\ anaResult.score = 10

NoDataShapes == {"absent", "nokey", "notop", "empty"}

\* C2: when the provider call completes without raising but carries no
\* related-query data (absent result, keyword key missing, "top" bucket missing,
\* no rows), fetch_keyword_trends returns an empty result and not the mock
\* dataset; the mock dataset is substituted only when the provider call raises.
C2_NoDataIsNotMock ==
    (trends.kind = "fetched" /\ trends.contacted) =>
        /\ trends.shape \in NoDataShapes => (trends.returned = <<>> /\ ~trends.excepted)
        /\ trends.excepted => trends.shape = "raise"

\* d is an integer nearest to num/den.
Nearest(d, num, den) == 2 * (IF num >= d * den THEN num - d * den ELSE d * den - num) <= den

RECURSIVE MaxDifficulty(_)
MaxDifficulty(rows) ==
    IF Len(rows) = 1 THEN rows[1].difficulty
    ELSE Max(rows[1].difficulty, MaxDifficulty(Tail(rows)))

\* C3: in every non-empty result fetch_keyword_trends hands to its caller, from
\* the provider or from the mock fallback, each row has estimatedVolume =
\* popularity * 100 and difficulty = round(popularity / max popularity * 100),
\* both non-negative, and the largest difficulty is 100.
C3_DerivedColumns ==
    (trends.kind = "fetched" /\ trends.returned # <<>>) =>
        LET rows == trends.returned
        IN  /\ \A i \in 1..Len(rows) :
                  /\ rows[i].estimated_volume = rows[i].value * 100
                  /\ rows[i].estimated_volume >= 0 /\ rows[i].difficulty >= 0
                  /\ MaxValue(rows) > 0
                  /\ Nearest(rows[i].difficulty, rows[i].value * 100, MaxValue(rows))
            /\ MaxDifficulty(rows) = 100

\* The query and value columns of a result.
ProviderColumns(rows) == [i \in 1..Len(rows) |-> [query |-> rows[i].query, value |-> rows[i].value]]

FetchStep(k) == trends' # trends /\ trends'.kind = "fetched" /\ trends'.keyword = k

\* C10: the cache keeps whatever the function returned, the mock fallback
\* included.  A fetch for k while an entry for k is younger than the TTL
\* returns the stored value without contacting the provider and leaves the
\* store alone; a fetch with no entry or an expired one contacts the provider
\* and stores what it returns (the mock dataset when the call failed) at age 0.
C10_CacheServesMock ==
    [][\A k \in Keywords :
          FetchStep(k) =>
              IF dataCache[k] # None /\ dataCache[k].age < TTL
              THEN /\ trends'.returned = dataCache[k].value
                   /\ ~trends'.contacted
                   /\ dataCache' = dataCache
              ELSE /\ trends'.contacted
                   /\ dataCache'[k] # None
                   /\ dataCache'[k].value = trends'.returned
                   /\ dataCache'[k].age = 0
                   /\ trends'.excepted => trends'.returned = create_mock_keyword_data(k)]_vars

\* The mock data of a failed fetch is served from the store, half an hour
\* old, while the provider has rows to give again.
C10_Witness ==
    /\ trends.kind = "fetched" /\ ~trends.contacted
    /\ trends.hadEntry /\ trends.seenAge > 0 /\ trends.seenAge < TTL
    /\ trends.fromExcept
    /\ trends.returned = create_mock_keyword_data(trends.keyword)
    /\ provider.kind = "table" /\ provider.rows # <<>> /\ MaxValue(provider.rows) > 0

\* The first source that holds a key, in the order secret store, environment
\* variable, key box.
FirstAvailable(s, e, box) ==
    IF s \notin {Unreadable, NoString} THEN OpenAI(s)
    ELSE IF e \notin {NoString, ""} THEN OpenAI(e)
    ELSE IF box # "" THEN OpenAI(box)
    ELSE None

\* C6: the credential in use is that of the first available source in the
\* order secret store, environment variable, interactive value; with none of
\* the three there is no client.
C6_FirstAvailableSource ==
    resourceCache # Unset => client = FirstAvailable(secrets, environ, keyBox)

\* C7: without a resolved credential a generate request issues no call to the
\* text-generation provider and fails (no result, an error shown); and when
\* the provider call raises, or its answer cannot be read, the function
\* returns a failure with no content.
C7_NoCredentialNoCall ==
    generation.kind \in {"button", "call"} =>
        /\ generation.client = None =>
              (~generation.called /\ generation.result = None /\ generation.error # "")
        /\ (generation.called /\ generation.outcome # "text") =>
              (generation.result = None /\ generation.error = "Generation failed")
        /\ generation.result # None =>
              (generation.called /\ generation.outcome = "text" /\ generation.client # None)

\* generate_meta_description called while there is no client.
C7_Witness ==
    /\ generation.kind = "call"
    /\ generation.client = None
    /\ ~generation.called
    /\ generation.result = None
    /\ generation.error = "OpenAI client not configured"

\* C8 as stated: once the first run has resolved the credential, no later step
\* changes the credential in use.
C8_ResolvedOnce ==
    [][resourceCache # Unset => client' = client]_vars

\* C8 as amended: the secret store and the environment are read by the first
\* run only, and what that run found stays cached; a client found there is the
\* credential of every later run; when none was found, each run reads the key
\* box again and the credential in use is the box's current value.
C8_ConfigureOnce ==
    [][resourceCache # Unset =>
          /\ resourceCache' = resourceCache
          /\ resourceCache.value # None => client' = resourceCache.value
          /\ resourceCache.value = None =>
                client' = (IF keyBox' = "" THEN None ELSE OpenAI(keyBox'))]_vars

\* A generation with the key cached from the secret store, after the store
\* has come to hold another key.
C8_Witness ==
    /\ resourceCache # Unset
    /\ resourceCache.value = OpenAI("sk-S1")
    /\ secrets = "sk-S2"
    /\ client = OpenAI("sk-S1")
    /\ generation.kind = "button" /\ generation.called /\ generation.client = OpenAI("sk-S1")

====
